---- MODULE Spec2Model ----
(***************************************************************************)
(* Model of the native Node.js proxy server (src/src/index.js):            *)
(*   - the buffered forwarder   proxyRequest        (app.all('/proxy'))    *)
(*   - the streaming downloader                     (app.all('/download')) *)
(*   - the WebSocket relay      server.on('upgrade')                       *)
(* One inbound HTTP request and one inbound upgrade request are modelled;  *)
(* requests are independent of each other in the program (no shared state) *)
(* so one of each covers the handlers' behaviour.                          *)
(***************************************************************************)
EXTENDS Integers, Sequences, FiniteSets, TLC

VARIABLES
    \* ---- inbound HTTP request (forward / download) ----
    handler,        \* which route handles the request: "none" | "proxy" | "download"
    targetUrl,      \* req.query.url, a string given as a sequence of lexemes
    proxyReq,       \* the outbound ClientRequest: "none" | "pending" | "responding"
                    \*   | "ended" | "failed" | "destroyed"
    queued,         \* event Node has queued after destroy(): "none" | "error" | "aborted"
    statusCode,     \* res.statusCode (0: never set by the handler)
    headersSent,    \* res.headersSent
    finished,       \* the caller's response has been ended
    body,           \* what was sent as the body: "none" | an error name | "upstream"
    sendCalls,      \* number of res.json / res.send calls made for this request
    responseData,   \* forward: the buffered upstream chunks
    written,        \* download: the chunks written to the caller
    upstream,       \* chunks the upstream has delivered so far
    httpLast,       \* the last outbound event handled: [ev, code]
    contentType,    \* proxyRes.headers['content-type'] || ''
    payload,        \* what the forwarder's 'end' listener sent: [kind, bytes]
    inboundClosed,  \* the caller's connection has closed
    reqQuery,       \* req.query: the entries [key, value] in the caller's order
    options,        \* the outbound request options: [hostname, port, path, headers]
    inbound,        \* the inbound request: [method, body, headers]
    \* ---- inbound upgrade request (WebSocket relay) ----
    wsTargetUrl,    \* request.headers['x-target-url'] (<<>>: header absent)
    socketOut,      \* raw status lines written to the inbound socket
    socketDestroyed,\* socket.destroy() was called on the inbound socket
    targetWs,       \* readyState of the outbound socket: "none" | "CONNECTING" | "OPEN"
                    \*   | "CLOSING" | "CLOSED"
    ws,             \* readyState of the upgraded client socket: "none" | "OPEN" | ...
    relayHandlers,  \* the relay handlers of lines 551-592 are installed
    clientRecv,     \* messages sent to the client with ws.send, in order
    targetRecv,     \* messages sent to the target with targetWs.send, in order
    wsClose,        \* arguments of the close() that closed the client socket
    targetClose,    \* arguments of the close() that closed the target socket
    preOpenFailed,  \* the target emitted 'error' before it ever opened
    wsLast,         \* the last socket event handled: [ev, code, reason]
    fromClient,     \* frames the client has sent to the relay, in order
    fromTarget,     \* frames the target has sent to the relay, in order
    catchClose,     \* arguments of the close() call made by a send-failure catch
    \* ---- the URL validator applied to one string ----
    candidate,      \* the string handed to isValidUrl and to GET /ws-proxy
    valid,          \* <<>> before the call of isValidUrl, then <<result>>
    wsProxyStatus,  \* 0, then the status GET /ws-proxy answers with
    \* ---- process ----
    uncaught        \* an exception escaped an event handler (the process dies)

httpVars == <<handler, targetUrl, proxyReq, queued, statusCode, headersSent, finished,
              body, sendCalls, responseData, written, upstream, httpLast,
              contentType, payload, inboundClosed, reqQuery, options, inbound>>
relayVars == <<wsTargetUrl, socketOut, socketDestroyed, targetWs, ws, relayHandlers,
               clientRecv, targetRecv, wsClose, targetClose, preOpenFailed, wsLast,
               fromClient, fromTarget, catchClose>>
validatorVars == <<candidate, valid, wsProxyStatus>>
vars == <<httpVars, relayVars, validatorVars, uncaught>>

\* What the caller's side of the HTTP request contributes, and the relay's
\* histories, as tuples.
callerVars == <<inboundClosed, reqQuery, options, inbound>>
bodyVars == <<contentType, payload>>
histVars == <<fromClient, fromTarget, catchClose>>

\* The response object's fields, as one tuple.
resVars == <<statusCode, headersSent, finished, body, sendCalls, uncaught>>

-----------------------------------------------------------------------------
(* Bounds *)

\* Largest number of body chunks the upstream delivers for one response.
MaxChunks == 2
\* Largest number of messages relayed in each direction of a relay session.
MaxMsgs == 2
\* Largest number of query parameters a caller adds besides 'url'.
MaxParams == 2

-----------------------------------------------------------------------------
(* URL strings and the WHATWG URL parser used by `new URL(...)`.            *)
(* A string is a sequence of lexemes; the parser consumes them left to      *)
(* right: scheme ":" ["//"] host [":" port] [path] [query].                *)

SpecialSchemes == {"http", "https", "ws", "wss", "ftp"}
OtherSchemes == {"mailto"}
\* Scheme lexemes written in capitals; the parser lower-cases the scheme.
UpperSchemes == {"HTTP", "WSS"}
HostLexemes == {"h"}
PortLexemes == {"80", "443", "8080"}
PathLexemes == {"/p"}
QueryLexemes == {"?q=1"}

At(s, i) == IF i >= 1 /\ i <= Len(s) THEN s[i] ELSE ""

Lower(lexeme) ==
    CASE lexeme = "HTTP" -> "http"
      [] lexeme = "WSS" -> "wss"
      [] OTHER -> lexeme

\* In front of the host of a special scheme the parser skips every slash, so
\* a path lexeme standing there is read as a host.
SkipSlash(lexeme) == IF lexeme = "/p" THEN "p" ELSE lexeme

DefaultPort(scheme) ==
    CASE scheme \in {"http", "ws"} -> "80"
      [] scheme \in {"https", "wss"} -> "443"
      [] OTHER -> "21"

NoUrl == [ok |-> FALSE, protocol |-> "", hostname |-> "", port |-> "",
          pathname |-> "", search |-> ""]

\* new URL(s): ok = FALSE stands for the TypeError it throws.
ParseUrl(s) ==
    IF ~(Lower(At(s, 1)) \in SpecialSchemes \cup OtherSchemes /\ At(s, 2) = ":")
    THEN NoUrl
    ELSE IF Lower(At(s, 1)) \in OtherSchemes
    THEN [ok |-> TRUE, protocol |-> Lower(At(s, 1)) \o ":", hostname |-> "",
          port |-> "", pathname |-> At(s, 3), search |-> ""]
    ELSE
      LET hp == IF At(s, 3) = "//" THEN 4 ELSE 3
          hasPort == At(s, hp + 1) = ":"
          portLex == At(s, hp + 2)
          pp == IF hasPort THEN hp + 3 ELSE hp + 1
          hasPath == At(s, pp) \in PathLexemes
          qp == IF hasPath THEN pp + 1 ELSE pp
      IN IF At(s, hp) \notin HostLexemes \cup PathLexemes THEN NoUrl
         ELSE IF hasPort /\ portLex \notin PortLexemes THEN NoUrl
         ELSE IF qp <= Len(s) /\ At(s, qp) \notin QueryLexemes THEN NoUrl
         ELSE IF qp < Len(s) THEN NoUrl
         ELSE [ok |-> TRUE,
               protocol |-> Lower(At(s, 1)) \o ":",
               hostname |-> SkipSlash(At(s, hp)),
               port |-> IF hasPort /\ portLex # DefaultPort(Lower(At(s, 1)))
                        THEN portLex ELSE "",
               pathname |-> IF hasPath THEN At(s, pp) ELSE "/",
               search |-> IF At(s, qp) \in QueryLexemes THEN At(s, qp) ELSE ""]

\* Faulty variant: the scheme test of line 28 is left out.
isValidUrlAnyScheme(urlString) == ParseUrl(urlString).ok

\* Lines 25-32: a TypeError of `new URL` is caught and answered with false.
isValidUrl(urlString) ==
    LET url == ParseUrl(urlString)
    IN IF url.ok
       THEN url.protocol \in {"http:", "https:", "ws:", "wss:"}
       ELSE FALSE

getHttpModule(protocol) == IF protocol = "https:" THEN "https" ELSE "http"

\* The target URLs an inbound request may carry (<<>>: parameter absent or empty).
UrlInputs ==
    { <<>>,
      <<"h">>,
      <<"http", ":", "//", "h">>,
      <<"https", ":", "//", "h", "/p">>,
      <<"http", ":", "//", "h", ":", "8080", "/p", "?q=1">>,
      <<"ws", ":", "//", "h">>,
      <<"wss", ":", "//", "h", "/p">>,
      <<"ftp", ":", "//", "h">>,
      <<"mailto", ":", "h">>,
      <<"http", ":", "//">> }


\* Body chunks the upstream may deliver (each a sequence of bytes).
Chunks == { <<"a">>, <<"b", "c">>, <<"[">>, <<" ", "1", "]">> }
\* The content-type headers the upstream may answer with (<<>>: none), as
\* sequences of lexemes.
ContentTypes == { <<>>, <<"text/plain">>, <<"application/json", "; charset=utf-8">> }
\* Status codes the upstream may answer with.
UpstreamStatuses == {200, 404}
\* error.code values the outbound request may fail with.
ErrorCodes == {"ENOTFOUND", "ECONNREFUSED", "ETIMEDOUT", "ECONNRESET", "EPIPE"}
\* Those that can still occur once the response has started.
MidStreamErrorCodes == {"ETIMEDOUT", "ECONNRESET", "EPIPE"}

-----------------------------------------------------------------------------
(* The caller's response object (Express `res`).                            *)

\* res.status(status).json({error: name, ...}).  res.status only assigns
\* statusCode; json sets Content-Type, which throws ERR_HTTP_HEADERS_SENT once
\* the headers have been sent.
ResJson(status, name) ==
    /\ statusCode' = status
    /\ sendCalls' = sendCalls + 1
    /\ IF headersSent
       THEN /\ uncaught' = TRUE
            /\ UNCHANGED <<headersSent, finished, body>>
       ELSE /\ headersSent' = TRUE
            /\ finished' = TRUE
            /\ body' = name
            /\ UNCHANGED uncaught

\* res.json(jsonData) / res.send(responseData) with the status set earlier.
ResSend ==
    /\ sendCalls' = sendCalls + 1
    /\ IF headersSent
       THEN /\ uncaught' = TRUE
            /\ UNCHANGED <<statusCode, headersSent, finished, body>>
       ELSE /\ headersSent' = TRUE
            /\ finished' = TRUE
            /\ body' = "upstream"
            /\ UNCHANGED <<statusCode, uncaught>>

-----------------------------------------------------------------------------
(* The caller's query string and the outbound path.                         *)
(* A string is a sequence of lexemes; an entry of req.query holds the list  *)
(* of the values its key was given (one value: a plain string).             *)

ParamKeys == {"a", "b"}
ParamValues == { <<"1">>, <<"x", " ", "y">> }

Pair(k, v) == [key |-> k, value |-> v]

\* The parameters a caller may add besides 'url', as written in the request.
RawQueries ==
    UNION { [1..n -> {Pair(k, v) : k \in ParamKeys, v \in ParamValues}] :
            n \in 0..MaxParams }

\* req.query as Express's query parser builds it: a key that occurs more than
\* once becomes one entry holding the array of its values.
RECURSIVE ParseQuery(_, _)
ParseQuery(raw, acc) ==
    IF raw = <<>> THEN acc
    ELSE LET p == Head(raw)
             same == {i \in 1..Len(acc) : acc[i].key = p.key}
         IN IF same = {}
            THEN ParseQuery(Tail(raw), Append(acc, Pair(p.key, <<p.value>>)))
            ELSE LET i == CHOOSE j \in same : TRUE
                 IN ParseQuery(Tail(raw),
                               [acc EXCEPT ![i].value = Append(@, p.value)])

\* String(value), as URLSearchParams.append converts its argument: an array
\* is joined with ",".
RECURSIVE StringOf(_)
StringOf(value) ==
    IF Len(value) = 0 THEN <<>>
    ELSE IF Len(value) = 1 THEN value[1]
    ELSE value[1] \o <<",">> \o StringOf(Tail(value))

\* application/x-www-form-urlencoded serialisation of one string.
Encode(str) ==
    [i \in 1..Len(str) |->
        CASE str[i] = " " -> "+"
          [] str[i] = "," -> "%2C"
          [] OTHER -> str[i]]

\* Lines 104-111: the URLSearchParams filled from req.query.
queryParams(query) ==
    IF Len(query) > 1
    THEN LET kept == SelectSeq(query, LAMBDA e : e.key # "url")
         IN [i \in 1..Len(kept) |-> Pair(kept[i].key, StringOf(kept[i].value))]
    ELSE <<>>

\* queryParams.toString().
RECURSIVE Serialize(_)
Serialize(params) ==
    IF params = <<>> THEN <<>>
    ELSE LET first == <<params[1].key, "=">> \o Encode(params[1].value)
         IN IF Len(params) = 1 THEN first
            ELSE first \o <<"&">> \o Serialize(Tail(params))

\* Lines 82 / 345: parsedUrl.pathname + parsedUrl.search.
BasePath(parsedUrl) ==
    <<parsedUrl.pathname>> \o
    (IF parsedUrl.search = "" THEN <<>> ELSE <<parsedUrl.search>>)

\* path.includes('?').
Includes(path) == \E i \in 1..Len(path) : path[i] \in QueryLexemes \cup {"?"}

\* Lines 82 and 113-116: options.path of the forwarder.
forwardPath(parsedUrl, query) ==
    LET path == BasePath(parsedUrl)
        qs == Serialize(queryParams(query))
    IN IF qs # <<>>
       THEN path \o <<IF Includes(path) THEN "&" ELSE "?">> \o qs
       ELSE path

-----------------------------------------------------------------------------
(* The inbound request and the outbound options built from it.              *)

\* req.method, whether req.body is truthy, and the names of the inbound
\* headers that carry a value.
Methods == {"GET", "POST"}
InboundHeaders == {"authorization", "x-custom-header", "cookie"}
Inbounds ==
    [method : Methods, body : BOOLEAN, headers : SUBSET InboundHeaders]
PlainGet == [method |-> "GET", body |-> FALSE, headers |-> {}]

NoOptions == [hostname |-> "", port |-> "", path |-> <<>>, headers |-> {}]

\* Lines 81 / 344: parsedUrl.port || (parsedUrl.protocol === 'https:' ? 443 : 80).
\* A port is written here as the string of its digits.
optionsPort(parsedUrl) ==
    IF parsedUrl.port # "" THEN parsedUrl.port
    ELSE IF parsedUrl.protocol = "https:" THEN "443" ELSE "80"

\* Lines 84-91 and 98-101: the names of options.headers of the forwarder.
forwardHeaders(req) ==
    {"Content-Type", "User-Agent", "Accept", "Authorization", "X-Requested-With"}
    \cup (IF "x-custom-header" \in req.headers THEN {"X-Custom-Header"} ELSE {})
    \cup (IF req.method \in {"POST", "PUT", "PATCH"} /\ req.body
          THEN {"Content-Length"} ELSE {})

\* Lines 347-352: the names of options.headers of the downloader.
downloadHeaders == {"User-Agent", "Accept", "Authorization", "Range"}

\* Lines 79-116: the options of the forwarder's outbound request.
forwardOptions(parsedUrl, query, req) ==
    [hostname |-> parsedUrl.hostname,
     port |-> optionsPort(parsedUrl),
     path |-> forwardPath(parsedUrl, query),
     headers |-> forwardHeaders(req)]

\* Lines 342-355: the options of the downloader's outbound request.
downloadOptions(parsedUrl) ==
    [hostname |-> parsedUrl.hostname,
     port |-> optionsPort(parsedUrl),
     path |-> BasePath(parsedUrl),
     headers |-> downloadHeaders]

-----------------------------------------------------------------------------
(* The forwarder: proxyRequest.                                             *)

\* Faulty variant: the isValidUrl check of lines 61-67 is left out.
proxyRequestNoValidatorCheck(url, throws) ==
    IF url = <<>>
    THEN ResJson(400, "Bad Request") /\ UNCHANGED proxyReq
    ELSE IF throws \/ ~ParseUrl(url).ok
    THEN ResJson(500, "Internal Server Error") /\ UNCHANGED proxyReq
    ELSE proxyReq' = "pending" /\ UNCHANGED resVars

\* Lines 48-67 and 69-127, 226-233: validation, then the outbound request is
\* created; `throws` says that building the request threw (the catch block).
proxyRequest(url, throws) ==
    IF url = <<>>
    THEN ResJson(400, "Bad Request") /\ UNCHANGED proxyReq
    ELSE IF ~isValidUrl(url)
    THEN ResJson(400, "Bad Request") /\ UNCHANGED proxyReq
    ELSE IF throws
    THEN ResJson(500, "Internal Server Error") /\ UNCHANGED proxyReq
    ELSE proxyReq' = "pending" /\ UNCHANGED resVars

\* proxyReq.on('error') of the forwarder, lines 177-205.
proxyOnError(code) ==
    IF code = "ENOTFOUND" \/ code = "ECONNREFUSED"
    THEN ResJson(502, "Bad Gateway")
    ELSE IF code = "ETIMEDOUT"
    THEN ResJson(504, "Gateway Timeout")
    ELSE ResJson(500, "Internal Server Error")

\* Faulty variant: the outbound request is left open.
ReqDestroyNot ==
    UNCHANGED <<proxyReq, queued>>

\* proxyReq.destroy(): before a response has arrived Node emits 'error'
\* (ECONNRESET, "socket hang up") on the request afterwards; once a response
\* has arrived the response stream is aborted instead.
ReqDestroy ==
    /\ proxyReq' = "destroyed"
    /\ queued' = IF proxyReq = "pending" THEN "error" ELSE "aborted"

\* proxyReq.on('timeout') of the forwarder, lines 208-217.
proxyOnTimeout ==
    /\ ReqDestroy
    /\ IF ~headersSent
       THEN ResJson(504, "Gateway Timeout")
       ELSE UNCHANGED resVars

\* proxyRes.on('data') of the forwarder, lines 156-158.
proxyOnData(chunk) ==
    /\ responseData' = responseData \o chunk
    /\ UNCHANGED <<written, resVars>>

\* JSON.parse(responseData.toString()): white space between tokens is
\* skipped; ok = FALSE stands for the SyntaxError it throws.  The one JSON
\* text the chunks can spell is the array [1].
JsonParse(bytes) ==
    LET tokens == SelectSeq(bytes, LAMBDA b : b # " ")
    IN IF tokens = <<"[", "1", "]">>
       THEN [ok |-> TRUE, value |-> <<1>>]
       ELSE [ok |-> FALSE, value |-> <<>>]

\* JSON.stringify(jsonData), as res.json serialises its argument.
JsonStringify(value) ==
    <<"[">> \o [i \in 1..Len(value) |-> IF value[i] = 1 THEN "1" ELSE "?"] \o <<"]">>

NoPayload == [kind |-> "none", bytes |-> <<>>]

\* Faulty variant: the buffered bytes are sent as they are, whatever the type.
proxyOnEndAlwaysRaw ==
    /\ ResSend
    /\ payload' = IF headersSent THEN payload
                  ELSE [kind |-> "raw", bytes |-> responseData]

\* proxyRes.on('end') of the forwarder, lines 160-173.
proxyOnEnd ==
    /\ ResSend
    /\ payload' =
         IF headersSent THEN payload
         ELSE IF (\E i \in 1..Len(contentType) : contentType[i] = "application/json")
                 /\ JsonParse(responseData).ok
         THEN [kind |-> "json", bytes |-> JsonStringify(JsonParse(responseData).value)]
         ELSE [kind |-> "raw", bytes |-> responseData]

-----------------------------------------------------------------------------
(* The streaming downloader: app.all('/download').                          *)

\* Lines 315-334 and 336-357, 456-463.
download(url, throws) ==
    IF url = <<>>
    THEN ResJson(400, "Bad Request") /\ UNCHANGED proxyReq
    ELSE IF ~isValidUrl(url)
    THEN ResJson(400, "Bad Request") /\ UNCHANGED proxyReq
    ELSE IF throws
    THEN ResJson(500, "Internal Server Error") /\ UNCHANGED proxyReq
    ELSE proxyReq' = "pending" /\ UNCHANGED resVars

\* Faulty variant: the ETIMEDOUT branch of lines 429-434 is left out.
downloadOnErrorMisclassified(code) ==
    IF code = "ENOTFOUND" \/ code = "ECONNREFUSED"
    THEN ResJson(502, "Bad Gateway")
    ELSE ResJson(500, "Internal Server Error")

\* proxyReq.on('error') of the downloader, lines 419-441.
downloadOnError(code) ==
    IF code = "ENOTFOUND" \/ code = "ECONNREFUSED"
    THEN ResJson(502, "Bad Gateway")
    ELSE IF code = "ETIMEDOUT"
    THEN ResJson(504, "Gateway Timeout")
    ELSE ResJson(500, "Internal Server Error")

\* Faulty variant: proxyReq.destroy() of line 445 is left out.
downloadOnTimeoutNoDestroy ==
    /\ ReqDestroyNot
    /\ IF ~headersSent
       THEN ResJson(504, "Gateway Timeout")
       ELSE UNCHANGED resVars

\* proxyReq.on('timeout') of the downloader, lines 443-452.
downloadOnTimeout ==
    /\ ReqDestroy
    /\ IF ~headersSent
       THEN ResJson(504, "Gateway Timeout")
       ELSE UNCHANGED resVars

\* Faulty variant: the chunk is put in front of what has been written.
downloadOnDataReordered(chunk) ==
    /\ written' = IF finished THEN written ELSE chunk \o written
    /\ headersSent' = TRUE
    /\ UNCHANGED <<responseData, statusCode, finished, body, sendCalls, uncaught>>

\* proxyRes.on('data') of the downloader, lines 390-400: res.write(chunk)
\* flushes the headers with the first chunk.
downloadOnData(chunk) ==
    /\ written' = IF finished THEN written ELSE written \o chunk
    /\ headersSent' = TRUE
    /\ UNCHANGED <<responseData, statusCode, finished, body, sendCalls, uncaught>>

\* proxyRes.on('end') of the downloader, lines 402-406: res.end().
downloadOnEnd ==
    /\ headersSent' = TRUE
    /\ finished' = TRUE
    /\ UNCHANGED <<statusCode, body, sendCalls, uncaught>>

\* Faulty variant: res.status(500) of line 411 is left out.
downloadOnStreamErrorKeepsStatus ==
    IF ~headersSent
    THEN ResJson(statusCode, "Download Error")
    ELSE UNCHANGED resVars

\* proxyRes.on('error') of the downloader, lines 408-416.
downloadOnStreamError ==
    IF ~headersSent
    THEN ResJson(500, "Download Error")
    ELSE UNCHANGED resVars

-----------------------------------------------------------------------------
(* Events of one inbound HTTP request.                                      *)

Event(ev, code) == [ev |-> ev, code |-> code]

\* The route dispatches the inbound request to its handler.  `raw` are the
\* parameters the caller wrote besides 'url', `urlFirst` says on which side
\* of them 'url' stands, and `req` is the rest of the inbound request.
Request(h, url, raw, urlFirst, req, throws) ==
    /\ handler = "none"
    /\ ~uncaught
    /\ raw # <<>> => h = "proxy" /\ req = PlainGet /\ ~throws
    /\ req # PlainGet => ~throws
    /\ throws => isValidUrl(url)
    /\ (raw # <<>> \/ req # PlainGet) => isValidUrl(url)
    /\ inbound' = req
    /\ raw = <<>> => urlFirst
    /\ handler' = h
    /\ targetUrl' = url
    /\ reqQuery' = ParseQuery(IF url = <<>> THEN raw
                              ELSE IF urlFirst THEN <<Pair("url", url)>> \o raw
                              ELSE raw \o <<Pair("url", url)>>, <<>>)
    /\ IF h = "proxy" THEN proxyRequest(url, throws) ELSE download(url, throws)
    /\ options' = IF proxyReq' = "pending"
                  THEN IF h = "proxy"
                       THEN forwardOptions(ParseUrl(url), reqQuery', req)
                       ELSE downloadOptions(ParseUrl(url))
                  ELSE options
    /\ inboundClosed' = FALSE
    /\ httpLast' = Event("request", IF throws THEN "THROWN" ELSE "")
    /\ UNCHANGED <<queued, responseData, written, upstream, bodyVars, relayVars, validatorVars>>

\* The caller's connection closes while the handler is at work.  No listener
\* for it is registered on req, res or their socket (lines 48-234, 315-464).
ClientDisconnect ==
    /\ handler # "none"
    /\ ~uncaught
    /\ ~inboundClosed
    /\ proxyReq \in {"pending", "responding"}
    /\ inboundClosed' = TRUE
    /\ httpLast' = Event("close", "")
    /\ UNCHANGED <<handler, targetUrl, proxyReq, queued, resVars, responseData,
                   written, upstream, reqQuery, options, inbound, bodyVars, relayVars,
                   validatorVars>>

\* The response callback, lines 127-151 / 357-383: res.status(proxyRes.statusCode);
\* `type` is the upstream's content-type header (<<>>: none).
Response(s, type) ==
    /\ proxyReq = "pending"
    /\ ~uncaught
    /\ proxyReq' = "responding"
    /\ statusCode' = s
    /\ contentType' = type
    /\ httpLast' = Event("response", "")
    /\ UNCHANGED <<handler, targetUrl, queued, headersSent, finished, body, sendCalls,
                   responseData, written, upstream, payload, relayVars, callerVars,
                   validatorVars, uncaught>>

Data(chunk) ==
    /\ proxyReq = "responding"
    /\ ~uncaught
    /\ Len(upstream) < MaxChunks
    /\ upstream' = Append(upstream, chunk)
    /\ IF handler = "proxy" THEN proxyOnData(chunk) ELSE downloadOnData(chunk)
    /\ httpLast' = Event("data", "")
    /\ UNCHANGED <<handler, targetUrl, proxyReq, queued, relayVars, callerVars, bodyVars, validatorVars>>

End ==
    /\ proxyReq = "responding"
    /\ ~uncaught
    /\ proxyReq' = "ended"
    /\ IF handler = "proxy"
       THEN proxyOnEnd
       ELSE downloadOnEnd /\ UNCHANGED payload
    /\ httpLast' = Event("end", "")
    /\ UNCHANGED <<handler, targetUrl, queued, responseData, written, upstream,
                   contentType, relayVars, callerVars, validatorVars>>

\* The outbound request fails: 'error' on proxyReq.
ReqError(code) ==
    /\ proxyReq \in {"pending", "responding"}
    /\ ~uncaught
    /\ proxyReq = "responding" => code \in MidStreamErrorCodes
    /\ proxyReq' = "failed"
    /\ IF handler = "proxy" THEN proxyOnError(code) ELSE downloadOnError(code)
    /\ httpLast' = Event("error", code)
    /\ UNCHANGED <<handler, targetUrl, queued, responseData, written, upstream,
                   relayVars, callerVars, bodyVars, validatorVars>>

\* The outbound socket has been idle for options.timeout: 'timeout' on proxyReq.
Timeout ==
    /\ proxyReq \in {"pending", "responding"}
    /\ ~uncaught
    /\ IF handler = "proxy" THEN proxyOnTimeout ELSE downloadOnTimeout
    /\ httpLast' = Event("timeout", "")
    /\ UNCHANGED <<handler, targetUrl, responseData, written, upstream, relayVars, callerVars, bodyVars, validatorVars>>

\* The 'error' Node emits on a request destroyed before its response arrived.
DestroyError ==
    /\ proxyReq = "destroyed"
    /\ queued = "error"
    /\ ~uncaught
    /\ queued' = "none"
    /\ IF handler = "proxy"
       THEN proxyOnError("ECONNRESET") ELSE downloadOnError("ECONNRESET")
    /\ httpLast' = Event("error", "ECONNRESET")
    /\ UNCHANGED <<handler, targetUrl, proxyReq, responseData, written, upstream,
                   relayVars, callerVars, bodyVars, validatorVars>>

\* The upstream response stream is cut before its end ('aborted' / 'error' on
\* proxyRes): after destroy(), or because the upstream closed the connection.
\* The forwarder registers no listener for it.
StreamError ==
    /\ \/ proxyReq = "destroyed" /\ queued = "aborted"
       \/ proxyReq = "responding"
    /\ ~uncaught
    /\ queued' = "none"
    /\ proxyReq' = IF proxyReq = "responding" THEN "failed" ELSE proxyReq
    /\ IF handler = "download" THEN downloadOnStreamError ELSE UNCHANGED resVars
    /\ httpLast' = Event("aborted", "")
    /\ UNCHANGED <<handler, targetUrl, responseData, written, upstream, relayVars, callerVars, bodyVars, validatorVars>>

-----------------------------------------------------------------------------
(* The WebSocket relay: server.on('upgrade').                               *)

\* WebSocket messages: payload and frame type.
Msgs == { [data |-> <<"m1">>, binary |-> FALSE],
          [data |-> <<"m2">>, binary |-> TRUE] }

\* The code and reason a 'close' event may carry: a close frame with a status,
\* a close frame without one (1005), a connection lost without a frame (1006).
CloseEvents == { [code |-> 1000, reason |-> "bye"],
                 [code |-> 1005, reason |-> ""],
                 [code |-> 1006, reason |-> ""] }

\* The close frame a close() call sent to the peer; `sent` is FALSE until then.
NoClose == [sent |-> FALSE, hasCode |-> FALSE, code |-> 0, reason |-> ""]
CloseFrame(hasCode, code, reason) ==
    [sent |-> TRUE, hasCode |-> hasCode, code |-> code, reason |-> reason]

\* The codes the ws library accepts in close(code): it throws a TypeError for
\* any other number.
isValidStatusCode(code) ==
    \/ code >= 1000 /\ code <= 1014 /\ code \notin {1004, 1005, 1006}
    \/ code >= 3000 /\ code <= 4999

\* `new WebSocket(url)` throws a SyntaxError for a string that is no URL and
\* for a scheme it does not support; recent library versions also take http:
\* and https: (`lenient`).
WebSocketThrows(url, lenient) ==
    LET u == ParseUrl(url)
    IN \/ ~u.ok
       \/ u.protocol \notin ({"ws:", "wss:"} \cup
                             (IF lenient THEN {"http:", "https:"} ELSE {}))

\* The "connected" notification of lines 595-599.
Connected(url) == [data |-> <<"connected">> \o url, binary |-> FALSE]

\* targetWs.close(code, reason) / targetWs.close(): only an OPEN socket sends
\* a close frame; the state becomes CLOSING before the code is validated.
TargetWsClose(hasCode, code, reason) ==
    IF targetWs = "OPEN"
    THEN /\ targetWs' = "CLOSING"
         /\ IF hasCode /\ ~isValidStatusCode(code)
            THEN uncaught' = TRUE /\ UNCHANGED targetClose
            ELSE targetClose' = CloseFrame(hasCode, code, reason) /\ UNCHANGED uncaught
    ELSE UNCHANGED <<targetWs, targetClose, uncaught>>

\* ws.close(code, reason) on the client socket; `destroyed` says whether the
\* inbound socket has been destroyed by then: a frame written to a destroyed
\* socket is lost.
WsClose(hasCode, code, reason, destroyed) ==
    IF ws = "OPEN"
    THEN /\ ws' = "CLOSING"
         /\ IF hasCode /\ ~isValidStatusCode(code)
            THEN uncaught' = TRUE /\ UNCHANGED wsClose
            ELSE /\ wsClose' = IF destroyed THEN wsClose
                               ELSE CloseFrame(hasCode, code, reason)
                 /\ UNCHANGED uncaught
    ELSE UNCHANGED <<ws, wsClose, uncaught>>

\* Faulty variant: the header check of lines 528-532 is left out.
upgradeIgnoringMissingHeader(url, lenient) ==
    IF url # <<>> /\ WebSocketThrows(url, lenient)
    THEN /\ socketOut' = Append(socketOut, 500)
         /\ socketDestroyed' = TRUE
         /\ UNCHANGED targetWs
    ELSE /\ targetWs' = "CONNECTING"
         /\ UNCHANGED <<socketOut, socketDestroyed>>

\* Lines 525-544, 609-613: the upgrade handler up to the creation of targetWs.
upgrade(url, lenient) ==
    IF url = <<>>
    THEN /\ socketOut' = Append(socketOut, 400)
         /\ socketDestroyed' = TRUE
         /\ UNCHANGED targetWs
    ELSE IF WebSocketThrows(url, lenient)
    THEN /\ socketOut' = Append(socketOut, 500)
         /\ socketDestroyed' = TRUE
         /\ UNCHANGED targetWs
    ELSE /\ targetWs' = "CONNECTING"
         /\ UNCHANGED <<socketOut, socketDestroyed>>

\* Faulty variant: the notification of lines 595-599 is not sent.
onTargetOpenSilent(handshakeOk) ==
    /\ socketOut' = Append(socketOut, 101)
    /\ ws' = "OPEN"
    /\ relayHandlers' = TRUE
    /\ UNCHANGED <<clientRecv, socketDestroyed>>

\* targetWs.on('open'), lines 546-601: wss.handleUpgrade completes the inbound
\* handshake (101) and calls back synchronously, or aborts it (400) when the
\* inbound request is no valid WebSocket handshake; the callback installs the
\* relay handlers and sends the notification.
onTargetOpen(handshakeOk) ==
    IF handshakeOk
    THEN /\ socketOut' = Append(socketOut, 101)
         /\ ws' = "OPEN"
         /\ relayHandlers' = TRUE
         /\ clientRecv' = Append(clientRecv, Connected(wsTargetUrl))
         /\ UNCHANGED socketDestroyed
    ELSE /\ socketOut' = Append(socketOut, 400)
         /\ socketDestroyed' = TRUE
         /\ UNCHANGED <<ws, relayHandlers, clientRecv>>

\* Faulty variant: the inbound socket is neither answered nor destroyed.
onTargetConnectErrorNoReject ==
    UNCHANGED <<socketOut, socketDestroyed>>

\* targetWs.on('error') registered at line 603; it stays registered for the
\* life of targetWs.
onTargetConnectError ==
    /\ socketOut' = Append(socketOut, 502)
    /\ socketDestroyed' = TRUE

\* The first argument a 'message' listener receives for a frame: the library
\* hands over a string for a text frame in its older versions, and a Buffer
\* for every frame in its newer ones (`asBuffer`), where the frame type is a
\* second argument, which the listeners of lines 551 and 562 do not take.
Delivered(frame, asBuffer) ==
    [data |-> frame.data, isString |-> ~frame.binary /\ ~asBuffer]

\* The frame send(message) writes: a text frame for a string, a binary frame
\* for anything else.
SentFrame(message) == [data |-> message.data, binary |-> ~message.isString]

\* ws.on('message'), lines 551-559.  send() on a socket that is not OPEN
\* throws in older library versions (`sendThrows`) and drops the message in
\* newer ones.
onWsMessage(message, sendThrows) ==
    IF targetWs = "OPEN"
    THEN /\ targetRecv' = Append(targetRecv, SentFrame(message))
         /\ catchClose' = NoClose
         /\ UNCHANGED <<ws, wsClose, uncaught>>
    ELSE /\ UNCHANGED targetRecv
         /\ IF sendThrows
            THEN /\ WsClose(TRUE, 1011, "Proxy error", socketDestroyed)
                 /\ catchClose' = CloseFrame(TRUE, 1011, "Proxy error")
            ELSE /\ catchClose' = NoClose
                 /\ UNCHANGED <<ws, wsClose, uncaught>>

\* targetWs.on('message'), lines 562-570.
onTargetMessage(message, sendThrows) ==
    IF ws = "OPEN"
    THEN /\ clientRecv' = IF socketDestroyed THEN clientRecv
                          ELSE Append(clientRecv, SentFrame(message))
         /\ catchClose' = NoClose
         /\ UNCHANGED <<targetWs, targetClose, uncaught>>
    ELSE /\ UNCHANGED clientRecv
         /\ IF sendThrows
            THEN /\ TargetWsClose(FALSE, 0, "")
                 /\ catchClose' = CloseFrame(FALSE, 0, "")
            ELSE /\ catchClose' = NoClose
                 /\ UNCHANGED <<targetWs, targetClose, uncaught>>

\* Faulty variant: targetWs.close() of line 575 is left out.
onWsCloseNoPropagation(code, reason) == UNCHANGED <<targetWs, targetClose, uncaught>>

\* ws.on('close'), lines 573-576.
onWsClose(code, reason) == TargetWsClose(FALSE, 0, "")

\* targetWs.on('close'), lines 578-581.
onTargetClose(code, reason) == WsClose(TRUE, code, reason, socketDestroyed)

\* ws.on('error'), lines 584-587.
onWsError == TargetWsClose(FALSE, 0, "")

\* targetWs.on('error') registered at line 589.
onTargetError(destroyed) == WsClose(TRUE, 1011, "Target WebSocket error", destroyed)

-----------------------------------------------------------------------------
(* Events of one inbound upgrade request.                                   *)

WsEvent(ev, code, reason) == [ev |-> ev, code |-> code, reason |-> reason]

Upgrade(url, lenient) ==
    /\ wsLast.ev = "none"
    /\ ~uncaught
    /\ wsTargetUrl' = url
    /\ upgrade(url, lenient)
    /\ wsLast' = WsEvent("upgrade", 0, "")
    /\ UNCHANGED <<ws, relayHandlers, clientRecv, targetRecv, wsClose, targetClose,
                   preOpenFailed, histVars, httpVars, validatorVars, uncaught>>

TargetOpen(handshakeOk) ==
    /\ targetWs = "CONNECTING"
    /\ ~uncaught
    /\ targetWs' = "OPEN"
    /\ onTargetOpen(handshakeOk)
    /\ wsLast' = WsEvent("targetOpen", 0, "")
    /\ UNCHANGED <<wsTargetUrl, targetRecv, wsClose, targetClose, preOpenFailed,
                   histVars, httpVars, validatorVars, uncaught>>

\* The connection to the target fails before it opens: 'error' on targetWs.
TargetConnectError ==
    /\ targetWs = "CONNECTING"
    /\ ~uncaught
    /\ targetWs' = "CLOSING"
    /\ preOpenFailed' = TRUE
    /\ onTargetConnectError
    /\ wsLast' = WsEvent("targetConnectError", 0, "")
    /\ UNCHANGED <<wsTargetUrl, ws, relayHandlers, clientRecv, targetRecv, wsClose,
                   targetClose, histVars, httpVars, validatorVars, uncaught>>

\* The client sends a frame: 'message' on ws.
ClientMessage(frame, asBuffer, sendThrows) ==
    /\ relayHandlers
    /\ ws \in {"OPEN", "CLOSING"}
    /\ ~uncaught
    /\ Len(fromClient) < MaxMsgs
    /\ fromClient' = Append(fromClient, frame)
    /\ onWsMessage(Delivered(frame, asBuffer), sendThrows)
    /\ wsLast' = WsEvent("clientMessage", 0, "")
    /\ UNCHANGED <<wsTargetUrl, socketOut, socketDestroyed, targetWs, relayHandlers,
                   clientRecv, targetClose, preOpenFailed, fromTarget,
                   httpVars, validatorVars>>

\* The target sends a frame: 'message' on targetWs.
TargetMessage(frame, asBuffer, sendThrows) ==
    /\ relayHandlers
    /\ targetWs \in {"OPEN", "CLOSING"}
    /\ ~uncaught
    /\ Len(fromTarget) < MaxMsgs
    /\ fromTarget' = Append(fromTarget, frame)
    /\ onTargetMessage(Delivered(frame, asBuffer), sendThrows)
    /\ wsLast' = WsEvent("targetMessage", 0, "")
    /\ UNCHANGED <<wsTargetUrl, socketOut, socketDestroyed, ws, relayHandlers,
                   targetRecv, wsClose, preOpenFailed, fromClient,
                   httpVars, validatorVars>>

\* The client socket emits 'close': its peer closed it, or its connection was
\* lost or destroyed.
ClientClose(c) ==
    /\ relayHandlers
    /\ ws \in {"OPEN", "CLOSING"}
    /\ ~uncaught
    /\ ws' = "CLOSED"
    /\ onWsClose(c.code, c.reason)
    /\ wsLast' = WsEvent("clientClose", c.code, c.reason)
    /\ UNCHANGED <<wsTargetUrl, socketOut, socketDestroyed, relayHandlers, clientRecv,
                   targetRecv, wsClose, preOpenFailed, histVars, httpVars, validatorVars>>

\* The target socket emits 'close'.
TargetClose(c) ==
    /\ targetWs \in {"OPEN", "CLOSING"}
    /\ ~uncaught
    /\ targetWs' = "CLOSED"
    /\ IF relayHandlers
       THEN onTargetClose(c.code, c.reason)
       ELSE UNCHANGED <<ws, wsClose, uncaught>>
    /\ wsLast' = WsEvent("targetClose", c.code, c.reason)
    /\ UNCHANGED <<wsTargetUrl, socketOut, socketDestroyed, relayHandlers, clientRecv,
                   targetRecv, targetClose, preOpenFailed, histVars, httpVars, validatorVars>>

\* The client socket emits 'error' (the library has started closing it).
ClientError ==
    /\ relayHandlers
    /\ ws = "OPEN"
    /\ ~uncaught
    /\ ws' = "CLOSING"
    /\ onWsError
    /\ wsLast' = WsEvent("clientError", 0, "")
    /\ UNCHANGED <<wsTargetUrl, socketOut, socketDestroyed, relayHandlers, clientRecv,
                   targetRecv, wsClose, preOpenFailed, histVars, httpVars, validatorVars>>

\* The open target socket emits 'error': the listener of line 603 runs first,
\* then the one of line 589 when the relay handlers are installed.
TargetError ==
    /\ targetWs = "OPEN"
    /\ ~uncaught
    /\ targetWs' = "CLOSING"
    /\ onTargetConnectError
    /\ IF relayHandlers
       THEN onTargetError(socketDestroyed')
       ELSE UNCHANGED <<ws, wsClose, uncaught>>
    /\ wsLast' = WsEvent("targetError", 0, "")
    /\ UNCHANGED <<wsTargetUrl, relayHandlers, clientRecv, targetRecv, targetClose,
                   preOpenFailed, histVars, httpVars, validatorVars>>

-----------------------------------------------------------------------------
(* The URL validator and the GET /ws-proxy pre-check, applied to one string. *)

\* Lines 467-498: the status GET /ws-proxy answers with.  The regular
\* expression /^wss?:\/\// is matched against the string as written.
wsProxyGet(url) ==
    IF url = <<>> THEN 400
    ELSE IF ~isValidUrl(url)
            \/ ~(At(url, 1) \in {"ws", "wss"} /\ At(url, 2) = ":" /\ At(url, 3) = "//")
    THEN 400
    ELSE 200

\* The strings the validator is tried on: an optional scheme, ":" and "//",
\* an optional host, and what may follow it.
Tails == { <<>>, <<":", "8080">>, <<":", "99999">>, <<"/p">>, <<"/p", "?q=1">> }
Opt(present, lexeme) == IF present THEN <<lexeme>> ELSE <<>>
ValidatorInputs ==
    { Opt(scheme # "", scheme) \o Opt(colon, ":") \o Opt(slashes, "//")
        \o Opt(host, "h") \o tail :
      scheme \in SpecialSchemes \cup OtherSchemes \cup UpperSchemes \cup {""},
      colon \in BOOLEAN, slashes \in BOOLEAN, host \in BOOLEAN, tail \in Tails }

Validate ==
    /\ valid = <<>>
    /\ valid' = <<isValidUrl(candidate)>>
    /\ UNCHANGED <<candidate, wsProxyStatus, httpVars, relayVars, uncaught>>

WsProxyGet ==
    /\ wsProxyStatus = 0
    /\ wsProxyStatus' = wsProxyGet(candidate)
    /\ UNCHANGED <<candidate, valid, httpVars, relayVars, uncaught>>

-----------------------------------------------------------------------------
(* Specifications.                                                          *)

\* The state before any request, but for the string the validator is given.
InitHandlers ==
    /\ handler = "none"
    /\ targetUrl = <<>>
    /\ proxyReq = "none"
    /\ queued = "none"
    /\ statusCode = 0
    /\ headersSent = FALSE
    /\ finished = FALSE
    /\ body = "none"
    /\ sendCalls = 0
    /\ responseData = <<>>
    /\ written = <<>>
    /\ upstream = <<>>
    /\ httpLast = Event("none", "")
    /\ contentType = <<>>
    /\ payload = NoPayload
    /\ inboundClosed = FALSE
    /\ reqQuery = <<>>
    /\ options = NoOptions
    /\ inbound = PlainGet
    /\ wsTargetUrl = <<>>
    /\ socketOut = <<>>
    /\ socketDestroyed = FALSE
    /\ targetWs = "none"
    /\ ws = "none"
    /\ relayHandlers = FALSE
    /\ clientRecv = <<>>
    /\ targetRecv = <<>>
    /\ wsClose = NoClose
    /\ targetClose = NoClose
    /\ preOpenFailed = FALSE
    /\ wsLast = WsEvent("none", 0, "")
    /\ fromClient = <<>>
    /\ fromTarget = <<>>
    /\ catchClose = NoClose
    /\ valid = <<>>
    /\ wsProxyStatus = 0
    /\ uncaught = FALSE

Init == InitHandlers /\ candidate = <<>>

\* One inbound request to /proxy or /download and its outbound request.
NextHttp ==
    \/ \E h \in {"proxy", "download"}, url \in UrlInputs, throws \in BOOLEAN :
          Request(h, url, <<>>, TRUE, PlainGet, throws)
    \/ ClientDisconnect
    \/ \E s \in UpstreamStatuses, type \in ContentTypes : Response(s, type)
    \/ \E chunk \in Chunks : Data(chunk)
    \/ End
    \/ \E code \in ErrorCodes : ReqError(code)
    \/ Timeout
    \/ DestroyError
    \/ StreamError

SpecHttp == Init /\ [][NextHttp]_vars

\* The same, where an event that can occur eventually does: the event loop
\* delivers what is queued, and the network is taken to answer, fail or stay
\* silent until the timeout.
SpecHttpLive == SpecHttp /\ WF_vars(NextHttp)

\* The inbound request alone, with the parameters, method, body and headers
\* a caller may give it: the outbound options are fixed when the outbound
\* request is created.
NextQuery ==
    \E h \in {"proxy", "download"}, url \in UrlInputs, raw \in RawQueries,
       urlFirst \in BOOLEAN, req \in Inbounds, throws \in BOOLEAN :
       Request(h, url, raw, urlFirst, req, throws)

SpecQuery == Init /\ [][NextQuery]_vars

\* One inbound upgrade request and its relay session.
NextRelay ==
    \/ \E url \in UrlInputs, lenient \in BOOLEAN : Upgrade(url, lenient)
    \/ \E handshakeOk \in BOOLEAN : TargetOpen(handshakeOk)
    \/ TargetConnectError
    \/ \E frame \in Msgs, asBuffer \in BOOLEAN, sendThrows \in BOOLEAN :
          ClientMessage(frame, asBuffer, sendThrows)
    \/ \E frame \in Msgs, asBuffer \in BOOLEAN, sendThrows \in BOOLEAN :
          TargetMessage(frame, asBuffer, sendThrows)
    \/ \E c \in CloseEvents : ClientClose(c)
    \/ \E c \in CloseEvents : TargetClose(c)
    \/ ClientError
    \/ TargetError

SpecRelay == Init /\ [][NextRelay]_vars

\* The validator and the pre-check on one string drawn from ValidatorInputs.
InitValidator == InitHandlers /\ candidate \in ValidatorInputs
NextValidator ==
    \/ Validate
    \/ WsProxyGet

SpecValidator == InitValidator /\ [][NextValidator]_vars

-----------------------------------------------------------------------------
(* Properties of the forwarder and the downloader (SpecHttp).               *)

\* C1: for a request handled by the forwarder, at most one response is sent
\* whatever outbound events follow: the first terminal event answers and every
\* later one is ignored (it makes no further send call, so nothing is thrown).
C1_SingleResponse ==
    handler = "proxy" => (sendCalls <= 1 /\ ~uncaught)

\* C2: when 'timeout' fires on the outbound request of a forward or a download
\* before anything has been sent to the caller, that same step answers 504
\* and destroys the outbound request.
C2_TimeoutAnswers504AndDestroys ==
    [][ (httpLast'.ev = "timeout" /\ httpLast.ev # "timeout" /\ ~headersSent)
        => /\ statusCode' = 504
           /\ body' = "Gateway Timeout"
           /\ headersSent'
           /\ proxyReq' = "destroyed" ]_vars

C2_Witness ==
    /\ handler = "download"
    /\ httpLast.ev = "timeout"
    /\ proxyReq = "destroyed"
    /\ statusCode = 504
    /\ sendCalls = 1

\* The status each class of outbound failure is to be answered with.
C3_StatusOf(code) ==
    CASE code \in {"ENOTFOUND", "ECONNREFUSED"} -> 502
      [] code = "ETIMEDOUT" -> 504
      [] OTHER -> 500

\* C3: an outbound failure before any response has been sent is answered by
\* its class alone, in both handlers alike: connection refused and host not
\* found with 502 "Bad Gateway", a timeout error with 504, anything else and an
\* exception while building the outbound request with 500.
C3_FailureClassification ==
    [][ /\ (httpLast'.ev = "error" /\ httpLast' # httpLast /\ ~headersSent)
           => /\ statusCode' = C3_StatusOf(httpLast'.code)
              /\ headersSent'
              /\ statusCode' = 502 => body' = "Bad Gateway"
        /\ (httpLast'.ev = "request" /\ httpLast'.code = "THROWN")
           => /\ statusCode' = 500
              /\ headersSent'
              /\ proxyReq' = "none" ]_vars

C3_Witness ==
    /\ handler = "download"
    /\ httpLast = Event("error", "ETIMEDOUT")
    /\ proxyReq = "failed"
    /\ statusCode = 504
    /\ sendCalls = 1
    /\ ~uncaught

\* C4: a request to forward or download whose target URL is missing, empty or
\* refused by the validator is answered 400, and no outbound request exists
\* for it in any later state.
C4_InvalidUrlRejected ==
    (handler # "none" /\ (targetUrl = <<>> \/ ~isValidUrl(targetUrl)))
        => /\ statusCode = 400
           /\ body = "Bad Request"
           /\ headersSent
           /\ proxyReq = "none"

C4_Witness ==
    /\ handler = "proxy"
    /\ targetUrl = <<"ftp", ":", "//", "h">>
    /\ statusCode = 400
    /\ proxyReq = "none"

\* The concatenation of a sequence of chunks.
RECURSIVE Flatten(_)
Flatten(chunks) ==
    IF chunks = <<>> THEN <<>> ELSE Head(chunks) \o Flatten(Tail(chunks))

\* C11: in a download, while the upstream body is arriving the bytes written
\* to the caller are the chunks received so far, in their order of arrival,
\* and the caller's stream is not ended; once the upstream body has ended
\* normally the bytes written are the concatenation of all its chunks and the
\* caller's stream is ended.
C11_DownloadStreamsChunksInOrder ==
    handler = "download"
        => /\ proxyReq = "responding" => (written = Flatten(upstream) /\ ~finished)
           /\ proxyReq = "ended" => (written = Flatten(upstream) /\ finished)

C11_Witness ==
    /\ handler = "download"
    /\ proxyReq = "ended"
    /\ upstream = << <<"b", "c">>, <<"a">> >>
    /\ written = <<"b", "c", "a">>
    /\ finished

\* C12: in a download, once the upstream response stream has failed after
\* bytes were written to the caller, the caller's response stream is
\* eventually ended.
C12_BrokenStreamEventuallyEnded ==
    (handler = "download" /\ httpLast.ev = "aborted" /\ written # <<>>) ~> finished

\* C13: in a download, when the upstream response stream fails while the body
\* is awaited and before any byte has been written to the caller, that step
\* answers 500 "Download Error" in place of the upstream status set by the
\* response callback.
C13_EarlyStreamErrorAnswers500 ==
    [][ (handler = "download" /\ httpLast'.ev = "aborted"
         /\ proxyReq = "responding" /\ written = <<>>)
        => /\ statusCode \in UpstreamStatuses
           /\ statusCode' = 500
           /\ body' = "Download Error"
           /\ headersSent' /\ finished'
           /\ sendCalls' = 1 /\ ~uncaught' ]_vars

C13_Witness ==
    /\ handler = "download"
    /\ httpLast.ev = "aborted"
    /\ proxyReq = "failed"
    /\ written = <<>>
    /\ statusCode = 500
    /\ body = "Download Error"

\* C14: in a download, once a byte has been written to the caller no event
\* sets a status other than the upstream's or calls for an error body.
C14_NoStatusOrBodyAfterFirstByte ==
    (handler = "download" /\ written # <<>>)
        => /\ statusCode \in UpstreamStatuses
           /\ sendCalls = 0
           /\ ~uncaught

\* The caller's parameters besides 'url', one pair for each time a key was
\* written in the request.
RECURSIVE C15_CallerPairs(_)
C15_CallerPairs(query) ==
    IF query = <<>> THEN <<>>
    ELSE LET e == Head(query)
         IN (IF e.key = "url" THEN <<>>
             ELSE [i \in 1..Len(e.value) |-> Pair(e.key, e.value[i])])
            \o C15_CallerPairs(Tail(query))

\* A serialised query cut at each "&".
RECURSIVE C15_Split(_)
C15_Split(str) ==
    IF str = <<>> THEN <<>>
    ELSE LET amps == {i \in 1..Len(str) : str[i] = "&"}
         IN IF amps = {} THEN <<str>>
            ELSE LET i == CHOOSE j \in amps : \A k \in amps : j <= k
                 IN <<SubSeq(str, 1, i - 1)>> \o C15_Split(SubSeq(str, i + 1, Len(str)))

\* The parameters an upstream reads from a serialised query.
C15_Decode(str) ==
    [i \in 1..Len(str) |->
        CASE str[i] = "+" -> " "
          [] str[i] = "%2C" -> ","
          [] OTHER -> str[i]]
C15_ReadPairs(str) ==
    LET parts == C15_Split(str)
    IN [i \in 1..Len(parts) |->
           Pair(parts[i][1], C15_Decode(SubSeq(parts[i], 3, Len(parts[i]))))]

C15_Count(pairs, pr) == Cardinality({i \in 1..Len(pairs) : pairs[i] = pr})

\* C15: the outbound path of a forward is the target's path and query,
\* followed, when the caller gave parameters besides 'url', by "&" if the
\* target has a query and "?" otherwise and by those parameters, each as many
\* times as the caller wrote it and with its value, 'url' not among them.
C15_QueryParametersForwardedOnce ==
    (handler = "proxy" /\ proxyReq # "none")
        => LET base == BasePath(ParseUrl(targetUrl))
               path == options.path
               caller == C15_CallerPairs(reqQuery)
               out == C15_ReadPairs(SubSeq(path, Len(base) + 2, Len(path)))
           IN /\ Len(path) >= Len(base)
              /\ SubSeq(path, 1, Len(base)) = base
              /\ caller = <<>> => path = base
              /\ caller # <<>>
                    => /\ Len(path) > Len(base) + 1
                       /\ path[Len(base) + 1] =
                             IF \E i \in 1..Len(targetUrl) : targetUrl[i] \in QueryLexemes
                             THEN "&" ELSE "?"
              /\ \A i \in 1..Len(out) :
                    /\ out[i].key # "url"
                    /\ C15_Count(out, out[i]) = C15_Count(caller, out[i])
              /\ \A i \in 1..Len(caller) :
                    C15_Count(out, caller[i]) = C15_Count(caller, caller[i])

\* C16: the step in which the caller's connection closes while the outbound
\* request is open destroys that outbound request.
C16_InboundCloseAbortsOutbound ==
    [][ (httpLast'.ev = "close" /\ proxyReq \in {"pending", "responding"})
        => proxyReq' = "destroyed" ]_vars

\* C21: in a forward, nothing is sent to the caller while the upstream
\* response is awaited or arriving; once the upstream body has ended the
\* response carries the upstream status and, when the upstream content-type
\* contains application/json and the whole body decodes, the decoded JSON
\* value, otherwise the concatenation of the upstream chunks in their order.
C21_ForwardBuffersThenSendsBody ==
    handler = "proxy"
        => /\ proxyReq \in {"pending", "responding"}
                => (~headersSent /\ written = <<>> /\ payload = NoPayload)
           /\ proxyReq = "ended"
                => /\ finished /\ sendCalls = 1 /\ ~uncaught
                   /\ written = <<>>
                   /\ statusCode \in UpstreamStatuses
                   /\ LET all == Flatten(upstream)
                          json == contentType = <<"application/json", "; charset=utf-8">>
                      IN payload =
                           IF json /\ JsonParse(all).ok
                           THEN [kind |-> "json", bytes |-> <<"[", "1", "]">>]
                           ELSE [kind |-> "raw", bytes |-> all]

C21_Witness ==
    /\ handler = "proxy"
    /\ proxyReq = "ended"
    /\ upstream = << <<"[">>, <<" ", "1", "]">> >>
    /\ payload = [kind |-> "json", bytes |-> <<"[", "1", "]">>]

\* Header names are compared without regard to case.
C22_Name(header) ==
    CASE header = "Content-Type" -> "content-type"
      [] header = "User-Agent" -> "user-agent"
      [] header = "Accept" -> "accept"
      [] header = "Authorization" -> "authorization"
      [] header = "X-Requested-With" -> "x-requested-with"
      [] header = "X-Custom-Header" -> "x-custom-header"
      [] header = "Content-Length" -> "content-length"
      [] header = "Range" -> "range"
      [] OTHER -> header

\* C22: the header names of an outbound request are, for a forward, among
\* content-type, user-agent, accept, authorization, the custom header (only
\* when the inbound request carries it) and content-length (only for a POST,
\* PUT or PATCH with a body), and for a download among user-agent, accept,
\* authorization and range.
C22_OutboundHeadersInAllowList ==
    proxyReq # "none"
        => LET names == {C22_Name(header) : header \in options.headers}
           IN IF handler = "proxy"
              THEN /\ names \subseteq {"content-type", "user-agent", "accept",
                                        "authorization", "x-custom-header",
                                        "content-length"}
                   /\ "x-custom-header" \in names
                         => "x-custom-header" \in inbound.headers
                   /\ "content-length" \in names
                         => (inbound.method \in {"POST", "PUT", "PATCH"} /\ inbound.body)
              ELSE names \subseteq {"user-agent", "accept", "authorization", "range"}

\* The port written in a URL string ("" when none is written).
C23_WrittenPort(url) ==
    LET colons == {i \in 3..Len(url) : url[i] = ":"}
    IN IF colons = {} THEN "" ELSE At(url, (CHOOSE i \in colons : TRUE) + 1)

\* C23: the port of an outbound request is the port written in the target
\* URL when there is one, otherwise 443 for https and wss and 80 for http and
\* ws, in forward and download alike.
C23_OutboundPort ==
    proxyReq # "none"
        => options.port =
             IF C23_WrittenPort(targetUrl) # "" THEN C23_WrittenPort(targetUrl)
             ELSE IF Lower(At(targetUrl, 1)) \in {"https", "wss"} THEN "443"
             ELSE "80"

\* C25: a forward whose target URL passed validation eventually sends a
\* response to the caller, whichever way the upstream takes: a complete
\* response, a failure before or during the body, or silence until the timeout.
C25_ForwardEventuallyResponds ==
    (handler = "proxy" /\ isValidUrl(targetUrl)) ~> finished

-----------------------------------------------------------------------------
(* Properties of the WebSocket relay (SpecRelay).                           *)

SessionOpen == relayHandlers /\ ws = "OPEN" /\ targetWs = "OPEN"

\* C5: in an open session, a 'close' event with code c and reason r on either
\* socket closes the other socket with the same code c and reason r.
C5_ClosePropagatedWithCodeAndReason ==
    [][ SessionOpen
        => /\ wsLast'.ev = "clientClose"
              => targetClose' = CloseFrame(TRUE, wsLast'.code, wsLast'.reason)
           /\ wsLast'.ev = "targetClose"
              => wsClose' = CloseFrame(TRUE, wsLast'.code, wsLast'.reason) ]_vars

\* C6: in an open session, an 'error' event on either socket closes the other
\* socket with close code 1011, all listeners of the event having run.
C6_ErrorClosesOtherWith1011 ==
    [][ SessionOpen
        => /\ wsLast'.ev = "clientError"
              => targetClose'.sent /\ targetClose'.hasCode /\ targetClose'.code = 1011
           /\ wsLast'.ev = "targetError"
              => wsClose'.sent /\ wsClose'.hasCode /\ wsClose'.code = 1011 ]_vars

\* C7: in an accepted session, once a close or error event has been handled
\* no socket is still open while the other one is not: the event's handler has
\* started the closing of the other side.
C7_NoHalfOpenSession ==
    relayHandlers => (ws = "OPEN" <=> targetWs = "OPEN")

C7_Witness ==
    /\ relayHandlers
    /\ wsLast.ev = "clientClose"
    /\ ws = "CLOSED"
    /\ targetWs = "CLOSING"

\* C8: the inbound upgrade is completed only once the target socket has
\* opened, never while it is connecting, and the first message the client is
\* sent is the "connected" notification with the target URL, ahead of every
\* relayed message.
C8_UpgradeAfterOpenConnectedFirst ==
    /\ (ws # "none" \/ relayHandlers \/ \E i \in DOMAIN socketOut : socketOut[i] = 101)
          => targetWs \notin {"none", "CONNECTING"}
    /\ ws # "none" => clientRecv # <<>>
    /\ clientRecv # <<>> => Head(clientRecv) = Connected(wsTargetUrl)

C8_Witness ==
    /\ ws = "OPEN"
    /\ Len(clientRecv) >= 2
    /\ clientRecv[1] = Connected(wsTargetUrl)
    /\ clientRecv[2] \in Msgs

\* C9: when the target connection fails before the session opens, the inbound
\* socket gets the raw 502 response and is destroyed, and the upgrade is not
\* completed then or later: no 101, no client socket, no relay handlers.
C9_ConnectFailureRejects ==
    preOpenFailed
        => /\ socketOut = <<502>>
           /\ socketDestroyed
           /\ ws = "none"
           /\ ~relayHandlers

C9_Witness ==
    /\ preOpenFailed
    /\ targetWs = "CLOSED"
    /\ socketOut = <<502>>

C18_NonWebSocketTargetRejected ==
    (wsLast.ev # "none"
     /\ ~(ParseUrl(wsTargetUrl).ok /\ ParseUrl(wsTargetUrl).protocol \in {"ws:", "wss:"}))
        => /\ targetWs # "OPEN"
           /\ ws = "none"
           /\ \A i \in 1..Len(socketOut) : socketOut[i] # 101

\* C19: in an open session the frames sent to the target are the frames the
\* client sent, and the frames sent to the client after the "connected"
\* notification are the frames the target sent: same number, order, payload
\* and text/binary type.
C19_FramesRelayedVerbatim ==
    SessionOpen
        => /\ targetRecv = fromClient
           /\ SubSeq(clientRecv, 2, Len(clientRecv)) = fromTarget

\* C20: a 'message' step whose forward fails because the destination socket
\* is not open closes the socket the message came from with a code, and that
\* code is neither a normal closure nor 1011.
C20_ForwardFailureClosesSourceAbnormally ==
    [][ (\/ wsLast'.ev = "clientMessage" /\ targetWs # "OPEN"
         \/ wsLast'.ev = "targetMessage" /\ ws # "OPEN")
        => /\ catchClose'.sent
           /\ catchClose'.hasCode
           /\ catchClose'.code \notin {1000, 1011} ]_vars

\* C24: once the inbound upgrade has been completed (101 written), nothing
\* more is written to the inbound socket as a raw status line and the socket
\* is not destroyed by the upgrade handler.
C24_NoRawWriteAfterUpgrade ==
    \A i \in 1..Len(socketOut) :
        socketOut[i] = 101 => (i = Len(socketOut) /\ ~socketDestroyed)

-----------------------------------------------------------------------------
(* Properties of the URL validator (SpecValidator).                         *)

\* C17: isValidUrl answers true exactly for the strings that parse as an
\* absolute URL and whose scheme, as written and without regard to case, is
\* http, https, ws or wss; for every other string, those that do not parse
\* included, it answers false.
C17_ValidatorAcceptsExactlyHttpAndWs ==
    /\ valid # <<>>
          => valid[1] = (/\ ParseUrl(candidate).ok
                         /\ At(candidate, 2) = ":"
                         /\ Lower(At(candidate, 1)) \in {"http", "https", "ws", "wss"})
    /\ (valid # <<>> /\ candidate = <<"https", ":", "//", "h">>) => valid[1]
    /\ (valid # <<>> /\ candidate = <<"ftp", ":", "//", "h">>) => ~valid[1]
    /\ (valid # <<>> /\ candidate = <<"h">>) => ~valid[1]

C17_Witness ==
    /\ candidate = <<"HTTP", ":", "//", "h", "/p">>
    /\ valid = <<TRUE>>

====
